---------------------------- MODULE Spec2Model ----------------------------
(***************************************************************************)
(* The lock-free single-producer/single-consumer ring buffer SPSCQueue<T>  *)
(* (SPSCQueue.h / SPSCQueue.tpp).                                          *)
(*                                                                         *)
(* push and pop are taken apart into their memory accesses, one action per *)
(* access, and the threads' actions interleave.  The two cursors are C++   *)
(* atomics: each keeps its modification order (head_mo, tail_mo), a thread *)
(* reads the newest store that is visible to it (view), and a store        *)
(* becomes visible to another thread by a separate step (Propagate), so a  *)
(* load may return a stale cursor.  buffer_ is plain memory: an access to  *)
(* a slot is ordered after the other thread's last access to it only by a  *)
(* release store of that thread which this thread has read with an         *)
(* acquire load (sync); an unordered access is a data race (ub).           *)
(***************************************************************************)
EXTENDS Integers, Sequences, FiniteSets, TLC

\* ------------------------------------------------------------ bounds

\* The constructor is tried with every capacity in 0..MaxCapacity.
MaxCapacity == 6
\* At most MaxPush pushes succeed in one behaviour.
MaxPush == 5
\* size_t arithmetic wraps modulo 2^SizeBits.  Every mask of the model is
\* below 2^SizeBits, and 2^SizeBits divides 2^64, so the masked results are
\* those of the 64-bit build.
SizeBits == 16
\* At most MaxQueryPush pushes succeed in a behaviour of SpecQuery.
MaxQueryPush == 2
\* The slots of the latency ring (1'000'000 in the source).
MaxSamplesBound == 3
\* At most MaxRecord latency samples are recorded in one behaviour.
MaxRecord == 6
\* At most MaxDecode decodes succeed in a behaviour of SpecCodec.
MaxDecode == 2
\* The sample counts for which the rank indices are computed.
MaxRank == 1001

SizeMod == 2 ^ SizeBits

\* The element type T: two distinguishable values.
Values == {"a", "b"}
\* What an out-parameter holds before any pop has written it.
NoVal == "none"
\* The value every push gives in SpecQuery.
QueryValue == "a"

Producers == {"producer"}
Consumers == {"consumer"}
Observers == {"observer"}
Threads == Producers \cup Consumers \cup Observers
\* A second thread that calls push, against the single-producer rule.
Rivals == {"rival"}
\* The threads that call push when the rule is broken.
Pushers == Producers \cup Rivals
\* Every thread there is.
Contexts == Threads \cup Rivals
\* The threads that access buffer_.
Accessors == Producers \cup Consumers \cup Rivals

\* ------------------------------------------------------------ helpers

RECURSIVE BitAnd(_, _)
\* a & b on unsigned words.
BitAnd(a, b) ==
    IF a = 0 \/ b = 0 THEN 0
    ELSE (a % 2) * (b % 2) + 2 * BitAnd(a \div 2, b \div 2)

\* x as a size_t.
Wrap(x) == x % SizeMod

\* The constructor's check: capacity < 2 || (capacity & (capacity - 1)) != 0.
InvalidCapacity_NoLowerBound(capacity) ==
    BitAnd(capacity, Wrap(capacity - 1)) # 0
InvalidCapacity(capacity) ==
    capacity < 2 \/ BitAnd(capacity, Wrap(capacity - 1)) # 0

\* (i + 1) & (capacity_ - 1)
Advance_Unmasked(i, cap) == Wrap(i + 1)
Advance(i, cap) == BitAnd(Wrap(i + 1), Wrap(cap - 1))

\* push's test "next == tail_.load(acquire)".
IsFull_Never(next, t) == FALSE
IsFull(next, t) == next = t

\* pop's test "t == head_.load(acquire)".
IsEmpty_Never(t, h) == FALSE
IsEmpty_Inverted(t, h) == t # h
IsEmpty(t, h) == t = h

\* The memory orders of the two loads of the other side's cursor.
PushTailLoadOrder == "acquire"
PopHeadLoadOrder_Relaxed == "relaxed"
PopHeadLoadOrder == "acquire"

\* ------------------------------------------------------------ state

VARIABLES
    qstate,     \* the object: "none", "alive", "failed" (the constructor threw), "destroyed"
    capacity_,  \* const size_t capacity_
    buffer_,    \* T* buffer_: slot -> [live, val, id, by, at]
    head_,      \* std::atomic<size_t> head_: its newest value
    tail_,      \* std::atomic<size_t> tail_: its newest value
    head_mo,    \* the stores to head_ in modification order: [val, by, stamp]
    tail_mo,    \* the stores to tail_ in modification order
    view,       \* thread -> [head, tail]: the newest store of each cursor visible to it
    sync,       \* accessor -> accessor -> how many release stores of the second the first has acquired
    rel,        \* thread -> the release stores it has done
    pc,         \* thread -> where it is in its call
    op,         \* thread -> the call it is in or has last returned from
    h,          \* thread -> its local h
    next,       \* thread -> its local next
    t,          \* thread -> its local t
    arg,        \* thread -> push's parameter item
    item,       \* thread -> pop's out-parameter item
    ret,        \* thread -> what its last call returned: "none", "true", "false"
    pushed,     \* the values of the pushes that returned true, in order
    popped,     \* the values the pops that returned true gave, in order
    born,       \* the elements constructed so far; element e is the e-th constructed
    dtor,       \* element -> how often its destructor has run
    ub,         \* the undefined behaviour met so far
    wrote,      \* thread -> whether its current call has changed head_, tail_ or buffer_
    item0,      \* thread -> item as it was when its current call began
    nsteps,     \* thread -> the steps its current call has taken
    qry,        \* thread -> its call of full, empty or size: [op, h, t, ret, val, fresh]
    seen        \* thread -> the element counts the channel has had during that call

shared == <<qstate, capacity_, buffer_, head_, tail_, head_mo, tail_mo>>
memory == <<view, sync, rel>>
locals == <<pc, op, h, next, t, arg, item, ret>>
ghosts == <<pushed, popped, born, dtor, ub>>
calls == <<wrote, item0, nsteps, qry>>
vars == <<shared, memory, locals, ghosts, calls, seen>>

\* The codec (MessageParser) and the latency ring it feeds.
VARIABLES
    sentOrder,         \* main's Order o, given to serialize (none before the first)
    serialized,        \* main's std::vector<uint8_t> serialized: the bytes serialize returned
    parsedOrder,       \* main's std::optional<Order> parsedOrder: NullOpt or an Order
    timestamps_RDTSC,  \* uint64_t timestamps_RDTSC[MAX_SAMPLES]: slot -> sample
    s_idx,             \* static uint64_t s_idx
    recorded,          \* the samples recorded so far, in order
    call,              \* the last call: [op, by, check, len, nread, idx0, ring0, reads, count]
    prev,              \* the parse before the last one: [check, failure]
    report,            \* what the last analyzeLatencies printed
    fault              \* the undefined behaviour met so far in the codec and the recorder

codec == <<sentOrder, serialized, parsedOrder>>
recorder == <<timestamps_RDTSC, s_idx, recorded>>
history == <<call, prev, report, fault>>
codecvars == <<codec, recorder, history>>
all == <<vars, codecvars>>

\* A slot of raw storage: no object lives in it.
RawSlot == [live |-> FALSE, val |-> NoVal, id |-> 0, by |-> "ctor", at |-> 0]

\* The initialising store of a cursor, done by the constructor before any thread runs.
InitStore == [val |-> 0, by |-> "ctor", stamp |-> 0]

Slots == 0 .. (capacity_ - 1)

\* A thread that is in no call of full, empty or size.
NoQuery == [op |-> "none", h |-> 0, t |-> 0, ret |-> "none", val |-> 0, fresh |-> FALSE]

\* static const size_t MAX_SAMPLES = 1'000'000, scaled to the bound.
MAX_SAMPLES == MaxSamplesBound

\* The slots of timestamps_RDTSC.
SampleSlots == 0 .. (MAX_SAMPLES - 1)

\* A std::optional<Order>: std::nullopt, or one that holds the Order o.
NullOpt == [has_value |-> FALSE]
Some(o) == [has_value |-> TRUE, value |-> o]

\* The two MessageParser objects of a program that has two.
Parsers == {"parser", "other"}

\* Before any call on a MessageParser or a LatencyTracker.
NoCall ==
    [op |-> "none", by |-> "none", check |-> "none", len |-> 0, nread |-> 0,
     idx0 |-> 0,
     ring0 |-> [k \in SampleSlots |-> 0], reads |-> {}, count |-> 0]

NoParse == [check |-> "none", failure |-> "none"]

NoReport == [kind |-> "none"]

\* The globals of MessageParser.cpp are zero-initialised before main runs.
InitCodec ==
    /\ sentOrder = NullOpt
    /\ serialized = << >>
    /\ parsedOrder = NullOpt
    /\ timestamps_RDTSC = [k \in SampleSlots |-> 0]
    /\ s_idx = 0
    /\ recorded = << >>
    /\ call = NoCall
    /\ prev = NoParse
    /\ report = NoReport
    /\ fault = {}

Init ==
    /\ qstate = "none"
    /\ capacity_ = 0
    /\ buffer_ = << >>
    /\ head_ = 0
    /\ tail_ = 0
    /\ head_mo = << >>
    /\ tail_mo = << >>
    /\ view = [th \in Contexts |-> [head |-> 1, tail |-> 1]]
    /\ sync = [th \in Accessors |-> [o \in Accessors |-> 0]]
    /\ rel = [th \in Contexts |-> 0]
    /\ pc = [th \in Contexts |-> "idle"]
    /\ op = [th \in Contexts |-> "none"]
    /\ h = [th \in Contexts |-> 0]
    /\ next = [th \in Contexts |-> 0]
    /\ t = [th \in Contexts |-> 0]
    /\ arg = [th \in Contexts |-> NoVal]
    /\ item = [th \in Contexts |-> NoVal]
    /\ ret = [th \in Contexts |-> "none"]
    /\ pushed = << >>
    /\ popped = << >>
    /\ born = 0
    /\ dtor = << >>
    /\ ub = {}
    /\ wrote = [th \in Contexts |-> FALSE]
    /\ item0 = [th \in Contexts |-> NoVal]
    /\ nsteps = [th \in Contexts |-> 0]
    /\ qry = [th \in Contexts |-> NoQuery]
    /\ seen = [th \in Contexts |-> {}]
    /\ InitCodec

\* ------------------------------------------------------------ construction

\* SPSCQueue(size_t capacity) : capacity_(capacity), head_(0), tail_(0): the
\* members are initialised, then the check throws std::invalid_argument (no
\* object comes to exist), otherwise the raw storage is allocated.
Construct(capacity) ==
    /\ qstate = "none"
    /\ capacity_' = capacity
    /\ head_' = 0
    /\ tail_' = 0
    /\ IF InvalidCapacity(capacity)
       THEN /\ qstate' = "failed"
            /\ UNCHANGED <<buffer_, head_mo, tail_mo>>
       ELSE /\ qstate' = "alive"
            /\ buffer_' = [s \in 0 .. (capacity - 1) |-> RawSlot]
            /\ head_mo' = <<InitStore>>
            /\ tail_mo' = <<InitStore>>
    /\ UNCHANGED <<memory, locals, ghosts, calls>>

\* ------------------------------------------------------------ memory model

\* The elements the channel holds: published by a push and not yet popped.
Count == Len(head_mo) - Len(tail_mo)

Max(a, b) == IF a >= b THEN a ELSE b

\* The store of a cursor that thread self reads now.
Visible(mo, self, cursor) == mo[view[self][cursor]]

\* sync after self has loaded store m with memory order `order`: an acquire load
\* synchronizes with the release store it reads, a relaxed load with nothing.
Acquire(self, m, order) ==
    IF order = "acquire" /\ self \in Accessors /\ m.by \in Accessors \ {self}
    THEN [sync EXCEPT ![self][m.by] = Max(@, m.stamp)]
    ELSE sync

\* Whether self's access to slot s happens after the last access to it.
Ordered(self, s) == s.by = self \/ s.by = "ctor" \/ sync[self][s.by] > s.at

\* Whether the newest store of each cursor is visible to self.
UpToDate(self) ==
    view[self].head = Len(head_mo) /\ view[self].tail = Len(tail_mo)

\* A store of another thread becomes visible to self.
Propagate(self, cursor) ==
    /\ qstate = "alive"
    /\ view[self][cursor] < Len(IF cursor = "head" THEN head_mo ELSE tail_mo)
    /\ view' = [view EXCEPT ![self][cursor] = @ + 1]
    /\ UNCHANGED <<shared, sync, rel, locals, ghosts, calls>>

\* What is recorded of a call beside the step A of thread self.
Record(self, A) ==
    /\ A
    /\ wrote' = [wrote EXCEPT ![self] =
                    (IF pc[self] = "idle" THEN FALSE ELSE @)
                    \/ <<head_', tail_', buffer_'>> # <<head_, tail_, buffer_>>]
    /\ item0' = [item0 EXCEPT ![self] = IF pc[self] = "idle" THEN item[self] ELSE @]
    /\ nsteps' = [nsteps EXCEPT ![self] = IF pc[self] = "idle" THEN 1 ELSE @ + 1]

\* A step of push or pop.
Call(self, A) == Record(self, A) /\ UNCHANGED qry

\* ------------------------------------------------------------ push

\* The two steps of push after the full check, in program order:
\* new (&buffer_[h]) T(item); then head_.store(next, release).
PushOrder == <<"push_construct", "push_store_head">>

\* Where push goes after its step at `at`: to the other step, or it returns true.
PushDone(at) == at = PushOrder[2]
PushAfter(at) == IF PushDone(at) THEN "idle" ELSE PushOrder[2]

\* What changes when push leaves its step at `at`.
PushLeave(self, at) ==
    /\ pc' = [pc EXCEPT ![self] = PushAfter(at)]
    /\ ret' = [ret EXCEPT ![self] = IF PushDone(at) THEN "true" ELSE @]
    /\ pushed' = IF PushDone(at) THEN Append(pushed, arg[self]) ELSE pushed

\* size_t h = head_.load(relaxed); size_t next = (h + 1) & (capacity_ - 1);
PushLoadHead(self, v) ==
    /\ qstate = "alive"
    /\ pc[self] = "idle"
    /\ born < MaxPush
    /\ LET m == Visible(head_mo, self, "head") IN
        /\ h' = [h EXCEPT ![self] = m.val]
        /\ next' = [next EXCEPT ![self] = Advance(m.val, capacity_)]
    /\ pc' = [pc EXCEPT ![self] = "push_load_tail"]
    /\ op' = [op EXCEPT ![self] = "push"]
    /\ arg' = [arg EXCEPT ![self] = v]
    /\ ret' = [ret EXCEPT ![self] = "none"]
    /\ UNCHANGED <<shared, memory, t, item, ghosts>>

\* PushLoadTail with the element written before the full check.
PushLoadTail_ConstructFirst(self) ==
    /\ pc[self] = "push_load_tail"
    /\ LET m == Visible(tail_mo, self, "tail") IN
        /\ t' = [t EXCEPT ![self] = m.val]
        /\ sync' = Acquire(self, m, PushTailLoadOrder)
        /\ IF IsFull(next[self], m.val)
           THEN /\ pc' = [pc EXCEPT ![self] = "idle"]
                /\ ret' = [ret EXCEPT ![self] = "false"]
           ELSE /\ pc' = [pc EXCEPT ![self] = PushOrder[1]]
                /\ UNCHANGED ret
    /\ buffer_' = [buffer_ EXCEPT ![h[self]].val = arg[self]]
    /\ UNCHANGED <<qstate, capacity_, head_, tail_, head_mo, tail_mo,
                   view, rel, op, h, next, arg, item, ghosts>>

\* PushLoadTail that loads tail_ again while the queue is full.
PushLoadTail_Spin(self) ==
    /\ pc[self] = "push_load_tail"
    /\ LET m == Visible(tail_mo, self, "tail") IN
        /\ t' = [t EXCEPT ![self] = m.val]
        /\ sync' = Acquire(self, m, PushTailLoadOrder)
        /\ pc' = [pc EXCEPT ![self] =
                    IF IsFull(next[self], m.val) THEN "push_load_tail" ELSE PushOrder[1]]
    /\ UNCHANGED <<shared, view, rel, op, h, next, arg, item, ret, ghosts>>

\* if (next == tail_.load(acquire)) return false;
PushLoadTail(self) ==
    /\ pc[self] = "push_load_tail"
    /\ LET m == Visible(tail_mo, self, "tail") IN
        /\ t' = [t EXCEPT ![self] = m.val]
        /\ sync' = Acquire(self, m, PushTailLoadOrder)
        /\ IF IsFull(next[self], m.val)
           THEN /\ pc' = [pc EXCEPT ![self] = "idle"]
                /\ ret' = [ret EXCEPT ![self] = "false"]
           ELSE /\ pc' = [pc EXCEPT ![self] = PushOrder[1]]
                /\ UNCHANGED ret
    /\ UNCHANGED <<shared, view, rel, op, h, next, arg, item, ghosts>>

\* new (&buffer_[h]) T(item);
PushConstruct(self) ==
    /\ pc[self] = "push_construct"
    /\ born' = born + 1
    /\ dtor' = Append(dtor, 0)
    /\ IF h[self] \in Slots
       THEN LET s == buffer_[h[self]] IN
            /\ buffer_' = [buffer_ EXCEPT ![h[self]] =
                              [live |-> TRUE, val |-> arg[self], id |-> born + 1,
                               by |-> self, at |-> rel[self]]]
            /\ ub' = ub \cup (IF s.live THEN {"overwrite"} ELSE {})
                        \cup (IF Ordered(self, s) THEN {} ELSE {"race"})
       ELSE /\ ub' = ub \cup {"out_of_bounds"}
            /\ UNCHANGED buffer_
    /\ PushLeave(self, "push_construct")
    /\ UNCHANGED <<qstate, capacity_, head_, tail_, head_mo, tail_mo, memory,
                   op, h, next, t, arg, item, popped>>

\* PushStoreHead that advances the cursor from its newest value, not from the
\* h the call loaded.
PushStoreHead_FromNewest(self) ==
    /\ pc[self] = "push_store_head"
    /\ head_' = Advance(head_, capacity_)
    /\ head_mo' = Append(head_mo, [val |-> Advance(head_, capacity_), by |-> self,
                                   stamp |-> rel[self] + 1])
    /\ rel' = [rel EXCEPT ![self] = @ + 1]
    /\ view' = [view EXCEPT ![self].head = Len(head_mo) + 1]
    /\ PushLeave(self, "push_store_head")
    /\ UNCHANGED <<qstate, capacity_, buffer_, tail_, tail_mo, sync,
                   op, h, next, t, arg, item, popped, born, dtor, ub>>

\* head_.store(next, release);
PushStoreHead(self) ==
    /\ pc[self] = "push_store_head"
    /\ head_' = next[self]
    /\ head_mo' = Append(head_mo, [val |-> next[self], by |-> self, stamp |-> rel[self] + 1])
    /\ rel' = [rel EXCEPT ![self] = @ + 1]
    /\ view' = [view EXCEPT ![self].head = Len(head_mo) + 1]
    /\ PushLeave(self, "push_store_head")
    /\ UNCHANGED <<qstate, capacity_, buffer_, tail_, tail_mo, sync,
                   op, h, next, t, arg, item, popped, born, dtor, ub>>

push(self) ==
    \/ \E v \in Values : Call(self, PushLoadHead(self, v))
    \/ Call(self, PushLoadTail(self))
    \/ Call(self, PushConstruct(self))
    \/ Call(self, PushStoreHead(self))

\* ------------------------------------------------------------ pop

\* size_t t = tail_.load(relaxed);
PopLoadTail(self) ==
    /\ qstate = "alive"
    /\ pc[self] = "idle"
    /\ t' = [t EXCEPT ![self] = Visible(tail_mo, self, "tail").val]
    /\ pc' = [pc EXCEPT ![self] = "pop_load_head"]
    /\ op' = [op EXCEPT ![self] = "pop"]
    /\ ret' = [ret EXCEPT ![self] = "none"]
    /\ UNCHANGED <<shared, memory, h, next, arg, item, ghosts>>

\* PopLoadHead with the element moved out before the empty check.
PopLoadHead_MoveFirst(self) ==
    /\ pc[self] = "pop_load_head"
    /\ LET m == Visible(head_mo, self, "head") IN
        /\ h' = [h EXCEPT ![self] = m.val]
        /\ sync' = Acquire(self, m, PopHeadLoadOrder)
        /\ IF IsEmpty(t[self], m.val)
           THEN /\ pc' = [pc EXCEPT ![self] = "idle"]
                /\ ret' = [ret EXCEPT ![self] = "false"]
           ELSE /\ pc' = [pc EXCEPT ![self] = "pop_move"]
                /\ UNCHANGED ret
    /\ item' = [item EXCEPT ![self] = buffer_[t[self]].val]
    /\ UNCHANGED <<shared, view, rel, op, next, t, arg, ghosts>>

\* if (t == head_.load(acquire)) return false;
PopLoadHead(self) ==
    /\ pc[self] = "pop_load_head"
    /\ LET m == Visible(head_mo, self, "head") IN
        /\ h' = [h EXCEPT ![self] = m.val]
        /\ sync' = Acquire(self, m, PopHeadLoadOrder)
        /\ IF IsEmpty(t[self], m.val)
           THEN /\ pc' = [pc EXCEPT ![self] = "idle"]
                /\ ret' = [ret EXCEPT ![self] = "false"]
           ELSE /\ pc' = [pc EXCEPT ![self] = "pop_move"]
                /\ UNCHANGED ret
    /\ UNCHANGED <<shared, view, rel, op, next, t, arg, item, ghosts>>

\* item = std::move(buffer_[t]);  Reading storage that holds no object, or an
\* object whose construction is not ordered before the read, is undefined: item
\* may get any value.
PopMove(self) ==
    /\ pc[self] = "pop_move"
    /\ IF t[self] \in Slots /\ buffer_[t[self]].live /\ Ordered(self, buffer_[t[self]])
       THEN /\ item' = [item EXCEPT ![self] = buffer_[t[self]].val]
            /\ UNCHANGED ub
       ELSE /\ \E v \in Values : item' = [item EXCEPT ![self] = v]
            /\ ub' = ub \cup (IF t[self] \notin Slots THEN {"out_of_bounds"}
                              ELSE IF buffer_[t[self]].live THEN {"race"}
                              ELSE {"read_raw"})
    /\ pc' = [pc EXCEPT ![self] = "pop_destroy"]
    /\ UNCHANGED <<shared, memory, op, h, next, t, arg, ret, pushed, popped, born, dtor>>

\* buffer_[t].~T();
PopDestroy(self) ==
    /\ pc[self] = "pop_destroy"
    /\ IF t[self] \in Slots
       THEN LET s == buffer_[t[self]] IN
            /\ buffer_' = [buffer_ EXCEPT ![t[self]] =
                              [live |-> FALSE, val |-> NoVal, id |-> s.id,
                               by |-> self, at |-> rel[self]]]
            /\ dtor' = IF s.live THEN [dtor EXCEPT ![s.id] = @ + 1] ELSE dtor
            /\ ub' = ub \cup (IF s.live THEN {} ELSE {"destroy_raw"})
                        \cup (IF Ordered(self, s) THEN {} ELSE {"race"})
       ELSE /\ ub' = ub \cup {"out_of_bounds"}
            /\ UNCHANGED <<buffer_, dtor>>
    /\ pc' = [pc EXCEPT ![self] = "pop_store_tail"]
    /\ UNCHANGED <<qstate, capacity_, head_, tail_, head_mo, tail_mo, memory,
                   op, h, next, t, arg, item, ret, pushed, popped, born>>

\* tail_.store((t + 1) & (capacity_ - 1), release); return true;
PopStoreTail(self) ==
    /\ pc[self] = "pop_store_tail"
    /\ tail_' = Advance(t[self], capacity_)
    /\ tail_mo' = Append(tail_mo, [val |-> Advance(t[self], capacity_), by |-> self,
                                   stamp |-> rel[self] + 1])
    /\ rel' = [rel EXCEPT ![self] = @ + 1]
    /\ view' = [view EXCEPT ![self].tail = Len(tail_mo) + 1]
    /\ pc' = [pc EXCEPT ![self] = "idle"]
    /\ ret' = [ret EXCEPT ![self] = "true"]
    /\ popped' = Append(popped, item[self])
    /\ UNCHANGED <<qstate, capacity_, buffer_, head_, head_mo, sync,
                   op, h, next, t, arg, item, pushed, born, dtor, ub>>

pop(self) ==
    \/ Call(self, PopLoadTail(self))
    \/ Call(self, PopLoadHead(self))
    \/ Call(self, PopMove(self))
    \/ Call(self, PopDestroy(self))
    \/ Call(self, PopStoreTail(self))

\* ------------------------------------------------------------ destruction

\* A destructor that runs ~T() on every slot of the buffer.
Resident_EverySlot(from, to, fuel) == [i \in 1 .. capacity_ |-> i - 1]

RECURSIVE Resident(_, _, _)
\* The slots the destructor's loop visits: while (t != h) { ...; t = (t + 1) & (capacity_ - 1); }
\* (cut after `fuel` rounds).
Resident(from, to, fuel) ==
    IF from = to \/ fuel = 0 THEN << >>
    ELSE <<from>> \o Resident(Advance(from, capacity_), to, fuel - 1)

RECURSIVE DestroyAll(_, _, _)
\* [buffer, dtor, ub] after buffer_[s].~T() for each s of `slots`, in order.
DestroyAll(slots, i, acc) ==
    IF i > Len(slots) THEN acc
    ELSE LET s == acc.buffer[slots[i]] IN
         DestroyAll(slots, i + 1,
            [buffer |-> [acc.buffer EXCEPT ![slots[i]] = [s EXCEPT !.live = FALSE, !.val = NoVal]],
             dtor |-> IF s.live THEN [acc.dtor EXCEPT ![s.id] = @ + 1] ELSE acc.dtor,
             ub |-> acc.ub \cup (IF s.live THEN {} ELSE {"destroy_raw"})])

\* ~SPSCQueue(): run by the thread that owns the queue once no call is in
\* progress and the producer and the consumer have been joined, so that it
\* reads the newest cursors.
Destruct ==
    /\ qstate = "alive"
    /\ \A th \in Threads : pc[th] = "idle"
    /\ LET after == DestroyAll(Resident(tail_, head_, capacity_), 1,
                               [buffer |-> buffer_, dtor |-> dtor, ub |-> ub]) IN
        /\ buffer_' = after.buffer
        /\ dtor' = after.dtor
        /\ ub' = after.ub
    /\ qstate' = "destroyed"
    /\ UNCHANGED <<capacity_, head_, tail_, head_mo, tail_mo, memory, locals,
                   pushed, popped, born, calls>>

\* ------------------------------------------------------------ full, empty, size

Queries == {"full", "empty", "size"}

\* return next == tail_.load(acquire), with next = (h + 1) & (capacity_ - 1)
full_Unmasked(hv, tv) == hv + 1 = tv
full(hv, tv) == Advance(hv, capacity_) = tv

\* return head_.load(acquire) == tail_.load(acquire)
empty(hv, tv) == hv = tv

\* return (h - t) & (capacity_ - 1)
size_Swapped(hv, tv) == BitAnd(Wrap(tv - hv), Wrap(capacity_ - 1))
size(hv, tv) == BitAnd(Wrap(hv - tv), Wrap(capacity_ - 1))

Bool(b) == IF b THEN "true" ELSE "false"

\* The first load of full(), empty() or size(): head_ in full and size; the
\* operands of == in empty are evaluated in either order.
QueryFirst(self, q, cursor) ==
    /\ qstate = "alive"
    /\ pc[self] = "idle"
    /\ q = "empty" \/ cursor = "head"
    /\ LET m == Visible(IF cursor = "head" THEN head_mo ELSE tail_mo, self, cursor) IN
        /\ qry' = [qry EXCEPT ![self] =
                     [op |-> q,
                      h |-> IF cursor = "head" THEN m.val ELSE 0,
                      t |-> IF cursor = "tail" THEN m.val ELSE 0,
                      ret |-> "none", val |-> 0, fresh |-> UpToDate(self)]]
        /\ sync' = Acquire(self, m, "acquire")
    /\ pc' = [pc EXCEPT ![self] = IF cursor = "head" THEN "query_load_tail" ELSE "query_load_head"]
    /\ UNCHANGED <<shared, view, rel, op, h, next, t, arg, item, ret, ghosts,
                   wrote, item0, nsteps>>

\* The second load, and the value to return.
QuerySecond(self) ==
    /\ pc[self] \in {"query_load_tail", "query_load_head"}
    /\ LET cursor == IF pc[self] = "query_load_tail" THEN "tail" ELSE "head"
           m == Visible(IF cursor = "head" THEN head_mo ELSE tail_mo, self, cursor)
           hv == IF cursor = "head" THEN m.val ELSE qry[self].h
           tv == IF cursor = "tail" THEN m.val ELSE qry[self].t
           q == qry[self].op
       IN
        /\ qry' = [qry EXCEPT ![self] =
                     [op |-> q, h |-> hv, t |-> tv, fresh |-> qry[self].fresh,
                      ret |-> IF q = "full" THEN Bool(full(hv, tv))
                              ELSE IF q = "empty" THEN Bool(empty(hv, tv))
                              ELSE "none",
                      val |-> IF q = "size" THEN size(hv, tv) ELSE 0]]
        /\ sync' = Acquire(self, m, "acquire")
    /\ pc' = [pc EXCEPT ![self] = "query_return"]
    /\ UNCHANGED <<shared, view, rel, op, h, next, t, arg, item, ret, ghosts,
                   wrote, item0, nsteps>>

\* The return: the caller has the value, and the locals of the call are gone.
QueryReturn(self) ==
    /\ pc[self] = "query_return"
    /\ pc' = [pc EXCEPT ![self] = "idle"]
    /\ qry' = [qry EXCEPT ![self] = NoQuery]
    /\ UNCHANGED <<shared, memory, op, h, next, t, arg, item, ret, ghosts,
                   wrote, item0, nsteps>>

query(self) ==
    \/ \E q \in Queries, cursor \in {"head", "tail"} : QueryFirst(self, q, cursor)
    \/ QuerySecond(self)
    \/ QueryReturn(self)

QueryPcs == {"query_load_tail", "query_load_head", "query_return"}

\* ------------------------------------------------------------ wire codec

\* A uint64_t, a double and a uint32_t are the bytes they have in memory on
\* the little-endian host (x86: the parser reads the cycle counter with
\* __rdtsc), least significant byte first; a char is its byte, 0..255.
Reverse(bytes) == [i \in 1 .. Len(bytes) |-> bytes[Len(bytes) + 1 - i]]

\* htonll / ntohll and htonl / ntohl on that host: the bytes swapped end to end.
hton64_Identity(value) == value
hton64(value) == Reverse(value)
ntoh64(value) == Reverse(value)
htonl_Identity(value) == value
htonl(value) == Reverse(value)
ntohl_Identity(value) == value
ntohl(value) == Reverse(value)

\* memcpy between a double and a uint64_t: the same eight bytes.
doubleToUint64(value) == value
uint64ToDouble(value) == value

\* The order ids, timestamps, prices, quantities, symbols and tags tried.
Ids == {<<1, 0, 0, 0, 0, 0, 0, 0>>, <<8, 7, 6, 5, 4, 3, 2, 1>>}
Timestamps == {<<232, 3, 0, 0, 0, 0, 0, 0>>}
\* 50.25, 0.0, -50.25 and a quiet NaN.
Prices ==
    {<<0, 0, 0, 0, 0, 32, 73, 64>>, <<0, 0, 0, 0, 0, 0, 0, 0>>,
     <<0, 0, 0, 0, 0, 32, 73, 192>>, <<0, 0, 0, 0, 0, 0, 248, 127>>}
\* 0 and 256.
Quantities == {<<0, 0, 0, 0>>, <<0, 1, 0, 0>>}
\* "AAPL", "ABCDEFG1" (no null), "A" followed by bytes that are not
\* alphanumeric, "A!" and "A\x80".
Symbols ==
    {<<65, 65, 80, 76, 0, 0, 0, 0>>, <<65, 66, 67, 68, 69, 70, 71, 49>>,
     <<65, 0, 33, 128, 0, 0, 0, 0>>, <<65, 33, 0, 0, 0, 0, 0, 0>>,
     <<65, 128, 0, 0, 0, 0, 0, 0>>}
\* Buy, Sell (-1) and a tag that is no Side; Market and a tag that is no OrderType.
Sides == {1, 255, 7}
Types == {1, 9}

\* The Orders tried: every symbol with every price and quantity, and every
\* id with every side and type.
Orders ==
    [order_id : {<<1, 0, 0, 0, 0, 0, 0, 0>>}, timestamp_ns : Timestamps,
     symbol : Symbols, price : Prices, quantity : Quantities, side : {1}, type : {1}]
    \cup
    [order_id : Ids, timestamp_ns : Timestamps,
     symbol : {<<65, 65, 80, 76, 0, 0, 0, 0>>}, price : {<<0, 0, 0, 0, 0, 32, 73, 64>>},
     quantity : {<<0, 1, 0, 0>>}, side : Sides, type : Types]

\* sizeof(WireOrder), packed: 8 + 8 + 8 + 4 + 8 + 1 + 1.
WireSize == 8 + 8 + 8 + 4 + 8 + 1 + 1

\* std::isalnum(c) for a char c in the "C" locale (the program sets none).  A
\* char is signed on this host: the bytes 128..254 are negative values other
\* than EOF, for which isalnum is undefined (undef is what it then returns);
\* the byte 255 is EOF (-1), which is not alphanumeric.
isalnum(c, undef) ==
    IF c \in 128 .. 254 THEN undef
    ELSE c \in 48 .. 57 \/ c \in 65 .. 90 \/ c \in 97 .. 122

RECURSIVE validateSymbolFrom(_, _, _)
\* validateSymbol's loop from index i (counted from 1 here).
validateSymbolFrom(symbol, i, undef) ==
    IF i > 8 THEN TRUE
    ELSE IF symbol[i] = 0 THEN TRUE
    ELSE IF ~isalnum(symbol[i], undef) THEN FALSE
    ELSE validateSymbolFrom(symbol, i + 1, undef)

validateSymbol(symbol, undef) == validateSymbolFrom(symbol, 1, undef)

\* price > 0.0 on the IEEE-754 bits: sign clear, not a NaN, not zero.
validatePrice(price) ==
    LET exponent == (price[8] % 128) * 16 + (price[7] \div 16)
        fraction0 == price[7] % 16 = 0 /\ \A i \in 1 .. 6 : price[i] = 0
    IN  /\ price[8] < 128
        /\ ~(exponent = 2047 /\ ~fraction0)
        /\ ~(exponent = 0 /\ fraction0)

\* qty > 0
validateQuantity(qty) == \E i \in 1 .. 4 : qty[i] # 0

\* serialize, step 1: the WireOrder w filled from the Order.
ToWire(o) ==
    [order_id |-> hton64(o.order_id),
     timestamp_ns |-> hton64(o.timestamp_ns),
     price |-> hton64(doubleToUint64(o.price)),
     quantity |-> htonl(o.quantity),
     symbol |-> o.symbol,
     side |-> o.side,
     type |-> o.type]

\* serialize, step 2: the 38 bytes of the packed WireOrder copied into a vector.
ToBytes(w) ==
    w.order_id \o w.timestamp_ns \o w.price \o w.quantity \o w.symbol
        \o <<w.side>> \o <<w.type>>

\* std::vector<uint8_t> MessageParser::serialize(const Order& order)
serialize(o) == ToBytes(ToWire(o))

\* parse's test "size < sizeof(WireOrder)".
TooShort_Empty(len) == len = 0
TooShort(len) == len < WireSize

\* The byte memcpy reads at data + i - 1: beyond the end of the buffer the
\* read is undefined, and gives junk.
ByteAt(data, i, junk) == IF i <= Len(data) THEN data[i] ELSE junk

\* The bytes from..to of the buffer.
Field(data, from, to, junk) == [i \in 1 .. (to - from + 1) |-> ByteAt(data, from + i - 1, junk)]

\* memcpy(&w, data, sizeof(WireOrder)) into the packed struct.
FromBytes(data, junk) ==
    [order_id |-> Field(data, 1, 8, junk),
     timestamp_ns |-> Field(data, 9, 16, junk),
     price |-> Field(data, 17, 24, junk),
     quantity |-> Field(data, 25, 28, junk),
     symbol |-> Field(data, 29, 36, junk),
     side |-> ByteAt(data, 37, junk),
     type |-> ByteAt(data, 38, junk)]

\* The Order o that parse fills from w.
FromWire(w) ==
    [order_id |-> ntoh64(w.order_id),
     timestamp_ns |-> ntoh64(w.timestamp_ns),
     price |-> uint64ToDouble(ntoh64(w.price)),
     quantity |-> ntohl(w.quantity),
     symbol |-> w.symbol,
     side |-> w.side,
     type |-> w.type]

\* The first operand of parse's
\*   !validateSymbol(o.symbol) || !validatePrice(o.price) || !validateQuantity(o.quantity)
\* that is true ("none" when none is).
FirstFailure(o, undef) ==
    IF ~validateSymbol(o.symbol, undef) THEN "symbol"
    ELSE IF ~validatePrice(o.price) THEN "price"
    ELSE IF ~validateQuantity(o.quantity) THEN "quantity"
    ELSE "none"

\* Whether validateSymbol calls isalnum on a byte for which it is undefined.
IsalnumUndefined(symbol, undef) ==
    \E i \in 1 .. 8 :
        /\ symbol[i] \in 128 .. 254
        /\ \A j \in 1 .. (i - 1) : symbol[j] # 0 /\ isalnum(symbol[j], undef)

\* ------------------------------------------------------------ latency ring

\* The cycle counts a decode can take (end - start).
Latencies == {1, 2}
\* The one every decode takes in SpecCodec.
CodecLatency == 1

\* recordLatency: timestampArr[s_idx % MAX_SAMPLES] = latency; ++s_idx.  The
\* index is a uint64_t and stays far below 2^64 here.
recordLatency_NoAdvance(timestampArr, idx, latency) ==
    [arr |-> [timestampArr EXCEPT ![idx % MAX_SAMPLES] = latency], idx |-> idx]
recordLatency_Shift(timestampArr, idx, latency) ==
    [arr |-> [k \in SampleSlots |->
                 IF idx < MAX_SAMPLES
                 THEN (IF k = idx THEN latency ELSE timestampArr[k])
                 ELSE (IF k = MAX_SAMPLES - 1 THEN latency ELSE timestampArr[k + 1])],
     idx |-> idx + 1]
recordLatency(timestampArr, idx, latency) ==
    [arr |-> [timestampArr EXCEPT ![idx % MAX_SAMPLES] = latency], idx |-> idx + 1]

\* uint64_t MessageParser::getIndex(): s_idx, whichever object it is called on.
getIndex(self) == s_idx

\* MessageParser::getTimestampList(): the one timestamps_RDTSC.
getTimestampList(self) == timestamps_RDTSC

\* What the caller of the last parse has in hand when it has failed: a
\* std::optional<Order> without a value.
Failure == IF parsedOrder.has_value THEN "none" ELSE "nullopt"

\* What the call before the one that begins now leaves to remember.
Remember ==
    IF call.op = "parse"
    THEN [check |-> call.check, failure |-> Failure]
    ELSE prev

\* What a read beyond the end of an array or a vector may give.
JunkBytes == {0, 65}
JunkSamples == {0, 7}

\* The values of count that analyzeLatencies is called with: main passes
\* MAX_SAMPLES, another caller getIndex().
Counts == 0 .. MaxRecord

\* ------------------------------------------------------------ serialize, parse

\* serialized = parser.serialize(o), for any Order o.  serialize uses no
\* member and no global: it is the same on every MessageParser.
Serialize(o) ==
    /\ sentOrder' = Some(o)
    /\ serialized' = serialize(o)
    /\ prev' = Remember
    /\ call' = [NoCall EXCEPT !.op = "serialize", !.idx0 = s_idx,
                              !.ring0 = timestamps_RDTSC]
    /\ UNCHANGED <<parsedOrder, recorder, report, fault>>

\* The buffers given to parse: the serialized record, the same with a byte
\* after it, the same without its last byte, and no byte at all.
Inputs ==
    {serialized, serialized \o <<0>>, SubSeq(serialized, 1, Len(serialized) - 1), << >>}

\* parsedOrder = parser.parse(data, size), with size the length of data.
\* latency is end - start, undef what isalnum returns where it is undefined,
\* junk what a read beyond the buffer gives.
Parse(self, data, latency, undef, junk) ==
    /\ Len(recorded) < MaxRecord
    /\ prev' = Remember
    /\ IF TooShort(Len(data))
       THEN /\ parsedOrder' = NullOpt
            /\ call' = [NoCall EXCEPT !.op = "parse", !.by = self, !.check = "size",
                                      !.len = Len(data), !.idx0 = s_idx,
                                      !.ring0 = timestamps_RDTSC]
            /\ UNCHANGED <<recorder, fault>>
       ELSE LET w == FromBytes(data, junk)
                o == FromWire(w)
                check == FirstFailure(o, undef)
                rec == recordLatency(timestamps_RDTSC, s_idx, latency)
            IN  /\ call' = [NoCall EXCEPT !.op = "parse", !.by = self, !.check = check,
                                          !.len = Len(data), !.nread = WireSize,
                                          !.idx0 = s_idx,
                                          !.ring0 = timestamps_RDTSC]
                /\ fault' = fault
                        \cup (IF IsalnumUndefined(o.symbol, undef) THEN {"isalnum"} ELSE {})
                        \cup (IF Len(data) < WireSize THEN {"parse_out_of_bounds"} ELSE {})
                /\ IF check # "none"
                   THEN /\ parsedOrder' = NullOpt
                        /\ UNCHANGED recorder
                   ELSE /\ timestamps_RDTSC' = rec.arr
                        /\ s_idx' = rec.idx
                        /\ recorded' = Append(recorded, latency)
                        /\ parsedOrder' = Some(o)
    /\ UNCHANGED <<sentOrder, serialized, report>>

\* parser.recordLatency(timestamps_RDTSC, latency), called directly: it is public.
RecordLatency(self, latency) ==
    /\ Len(recorded) < MaxRecord
    /\ LET rec == recordLatency(timestamps_RDTSC, s_idx, latency) IN
        /\ timestamps_RDTSC' = rec.arr
        /\ s_idx' = rec.idx
    /\ recorded' = Append(recorded, latency)
    /\ prev' = Remember
    /\ call' = [NoCall EXCEPT !.op = "record", !.by = self, !.idx0 = s_idx,
                              !.ring0 = timestamps_RDTSC]
    /\ UNCHANGED <<codec, report, fault>>

\* ------------------------------------------------------------ analyzeLatencies

\* analyzeLatencies' test "count == 0".
NoData_Never(count) == FALSE
NoData(count) == count = 0

\* v[i] of a std::vector, i counted from 0: beyond its end the read is
\* undefined, and gives junk.
At(v, i, junk) == IF i + 1 \in 1 .. Len(v) THEN v[i + 1] ELSE junk

RECURSIVE Insert(_, _)
\* The ascending sequence v with x put in its place.
Insert(v, x) ==
    IF v = << >> THEN <<x>>
    ELSE IF x <= Head(v) THEN <<x>> \o v
    ELSE <<Head(v)>> \o Insert(Tail(v), x)

RECURSIVE Sort(_)
\* std::sort(sorted.begin(), sorted.end()): ascending.
Sort_Unsorted(v) == v
Sort(v) == IF v = << >> THEN << >> ELSE Insert(Sort(Tail(v)), Head(v))

RECURSIVE Accumulate(_)
\* std::accumulate(latencies.begin(), latencies.end(), 0.0)
Accumulate(v) == IF v = << >> THEN 0 ELSE Head(v) + Accumulate(Tail(v))

\* *std::min_element and *std::max_element: of an empty vector they
\* dereference end(), which is undefined.
MinElement(v, junk) ==
    IF v = << >> THEN junk
    ELSE CHOOSE x \in {v[i] : i \in 1 .. Len(v)} : \A i \in 1 .. Len(v) : x <= v[i]
MaxElement(v, junk) ==
    IF v = << >> THEN junk
    ELSE CHOOSE x \in {v[i] : i \in 1 .. Len(v)} : \A i \in 1 .. Len(v) : x >= v[i]

\* sorted.size() / 2
MedianIndex(n) == n \div 2
\* static_cast<size_t>(sorted.size() * 0.99) and (... * 0.999): the double
\* product truncated.  The doubles nearest 0.99 and 0.999 are within 1e-17 of
\* them, so for sizes up to MAX_SAMPLES the product rounds to n*99/100
\* whenever that is an integer and keeps its integer part otherwise.
P99Index_RoundedUp(n) == (n * 99 + 99) \div 100
P99Index(n) == (n * 99) \div 100
P999Index(n) == (n * 999) \div 1000

\* What analyzeLatencies prints for the vector latencies.
Statistics(latencies, junk) ==
    LET sorted == Sort(latencies)
        n == Len(latencies)
    IN  [kind |-> "stats",
         latencies |-> latencies,
         count |-> n,
         min |-> MinElement(latencies, junk),
         median |-> At(sorted, MedianIndex(n), junk),
         avg |-> <<Accumulate(latencies), n>>,
         p99 |-> At(sorted, P99Index(n), junk),
         p999 |-> At(sorted, P999Index(n), junk),
         max |-> MaxElement(latencies, junk)]

\* benchmarker.analyzeLatencies(timestamps_RDTSC, count).  The vector
\* latencies is built from timestampArr .. timestampArr + count: a slot at or
\* beyond MAX_SAMPLES is outside the array, the read is undefined and gives junk.
AnalyzeLatencies(count, junk) ==
    /\ prev' = Remember
    /\ IF NoData(count)
       THEN /\ report' = [kind |-> "nodata"]
            /\ call' = [NoCall EXCEPT !.op = "analyze", !.by = "benchmarker", !.count = count,
                                      !.idx0 = s_idx, !.ring0 = timestamps_RDTSC]
            /\ UNCHANGED fault
       ELSE LET latencies == [i \in 1 .. count |->
                                 IF i - 1 \in SampleSlots THEN timestamps_RDTSC[i - 1]
                                 ELSE junk]
            IN  /\ report' = Statistics(latencies, junk)
                /\ call' = [NoCall EXCEPT !.op = "analyze", !.by = "benchmarker",
                                          !.count = count, !.idx0 = s_idx,
                                          !.ring0 = timestamps_RDTSC,
                                          !.reads = 0 .. (count - 1)]
                /\ fault' = fault
                        \cup (IF count > MAX_SAMPLES THEN {"analyze_out_of_bounds"} ELSE {})
                        \cup (IF count = 0 THEN {"analyze_empty"} ELSE {})
    /\ UNCHANGED <<codec, recorder>>

\* ------------------------------------------------------------ codec specifications

\* The codec: any Order is serialized, and the bytes (whole, with a byte
\* more, cut short or none) are parsed, by either of two MessageParser
\* objects.  Every decode takes the same number of cycles.
NextCodec ==
    \/ \E o \in Orders : Serialize(o) /\ UNCHANGED vars
    \/ \E self \in Parsers, data \in Inputs, undef \in BOOLEAN, junk \in JunkBytes :
          /\ Parse(self, data, CodecLatency, undef, junk)
          /\ s_idx' <= MaxDecode
          /\ UNCHANGED vars

SpecCodec == Init /\ [][NextCodec]_all

\* The WireOrders that arrive, field by field as the bytes are on the wire:
\* every symbol with the prices 50.25 and 0.0, and every side and type byte
\* with two ids, the quantities 256 and 0 and a symbol that has bytes after
\* its null.
WireOrders ==
    [order_id : {<<0, 0, 0, 0, 0, 0, 0, 1>>}, timestamp_ns : {<<0, 0, 0, 0, 0, 0, 3, 232>>},
     price : {<<64, 73, 32, 0, 0, 0, 0, 0>>, <<0, 0, 0, 0, 0, 0, 0, 0>>},
     quantity : {<<0, 0, 1, 0>>}, symbol : Symbols, side : {1}, type : {1}]
    \cup
    [order_id : {<<0, 0, 0, 0, 0, 0, 0, 1>>, <<1, 2, 3, 4, 5, 6, 7, 8>>},
     timestamp_ns : {<<0, 0, 0, 0, 0, 0, 3, 232>>},
     price : {<<64, 73, 32, 0, 0, 0, 0, 0>>},
     quantity : {<<0, 0, 1, 0>>, <<0, 0, 0, 0>>},
     symbol : {<<65, 0, 33, 128, 0, 0, 0, 0>>},
     side : {0, 1, 7, 255}, type : {0, 1, 9}]

\* The buffers given to parse by a caller that has them from elsewhere: the
\* 38 bytes of a WireOrder, alone or with a byte after them.
Buffers == {ToBytes(w) \o rest : w \in WireOrders, rest \in {<< >>, <<9>>}}

\* A round of main's loop begins with a buffer that no serialize has made:
\* parsedOrder, local to the round that has ended, is gone.
Receive(data) ==
    /\ serialized' = data
    /\ sentOrder' = NullOpt
    /\ parsedOrder' = NullOpt
    /\ prev' = NoParse
    /\ call' = [NoCall EXCEPT !.op = "receive", !.len = Len(data), !.idx0 = s_idx,
                              !.ring0 = timestamps_RDTSC]
    /\ UNCHANGED <<recorder, report, fault>>

\* A buffer arrives.
DoReceive == \E data \in Buffers : Receive(data) /\ UNCHANGED vars

\* The buffer that has arrived is parsed.
ParseReceived ==
    \E undef \in BOOLEAN :
        /\ call.op = "receive"
        /\ Parse("parser", serialized, CodecLatency, undef, 0)
        /\ s_idx' <= MaxDecode
        /\ UNCHANGED vars

\* The Order that parse returned is serialized.
Reencode ==
    /\ call.op = "parse"
    /\ parsedOrder.has_value
    /\ Serialize(parsedOrder.value)
    /\ UNCHANGED vars

\* The codec the other way round: bytes are parsed, and what parse returns is
\* serialized.
NextReverse ==
    \/ DoReceive
    \/ ParseReceived
    \/ Reencode

SpecReverse == Init /\ [][NextReverse]_all

\* The recorder: samples are recorded, by either of two MessageParser objects,
\* and analyzed.
NextRecorder ==
    \/ \E self \in Parsers, latency \in Latencies : RecordLatency(self, latency) /\ UNCHANGED vars
    \/ \E count \in Counts, junk \in JunkSamples : AnalyzeLatencies(count, junk) /\ UNCHANGED vars

SpecRecorder == Init /\ [][NextRecorder]_all

\* ------------------------------------------------------------ specification

\* The counts the channel has had since a call of full, empty or size began,
\* kept up to the return of the call.  No member of SPSCQueue touches the
\* codec or the latency ring.
Track ==
    /\ seen' = [th \in Contexts |->
                    IF pc'[th] \notin QueryPcs THEN {}
                    ELSE IF pc[th] \notin QueryPcs THEN {Count}
                    ELSE seen[th] \cup {Count'}]
    /\ UNCHANGED codecvars

\* The constructor runs, with any capacity.
DoConstruct == (\E capacity \in 0 .. MaxCapacity : Construct(capacity)) /\ Track

\* The producer thread takes a step of push.
DoPush == (\E self \in Producers : push(self)) /\ Track

\* The consumer thread takes a step of pop.
DoPop == (\E self \in Consumers : pop(self)) /\ Track

\* A store to head_ becomes visible to the consumer thread.
SeeHead == (\E self \in Consumers : Propagate(self, "head")) /\ Track

\* A store to tail_ becomes visible to the producer thread.
SeeTail == (\E self \in Producers : Propagate(self, "tail")) /\ Track

\* The destructor runs.
DoDestruct == Destruct /\ Track

\* One producer thread and one consumer thread on one queue.
Next ==
    \/ DoConstruct
    \/ DoPush
    \/ DoPop
    \/ SeeHead
    \/ SeeTail
    \/ DoDestruct

Spec == Init /\ [][Next]_vars

\* Whether no thread but self is in a call of full, empty or size.
Alone(self) == \A th \in Threads \ {self} : pc[th] \notin QueryPcs

\* A thread takes a step of full, empty or size.  The calls only load, and
\* none changes what another thread reads: they are taken one at a time.
DoQuery == (\E self \in Threads : Alone(self) /\ query(self)) /\ Track

\* A store to a cursor becomes visible to the third thread.
ObserverSees ==
    (\E self \in Observers, cursor \in {"head", "tail"} : Propagate(self, cursor)) /\ Track

\* The pushes of the runs with queries: the cursors do not depend on the
\* elements' values, so every push gives the same one.
QueryPush ==
    /\ DoPush
    /\ born' <= MaxQueryPush
    /\ \A p \in Producers : arg'[p] \in {NoVal, QueryValue}

\* The same, with full(), empty() and size() called by the producer between
\* its pushes, by the consumer between its pops, and by a third thread.
NextQuery ==
    \/ DoConstruct
    \/ QueryPush
    \/ DoPop
    \/ SeeHead
    \/ SeeTail
    \/ DoDestruct
    \/ DoQuery
    \/ ObserverSees

SpecQuery == Init /\ [][NextQuery]_vars

\* A thread's one call of push: it begins it if it has made no call yet, and
\* goes on with it.
OnePush(self) == (pc[self] # "idle" \/ op[self] = "none") /\ push(self)

\* The producer thread or the second pushing thread takes a step of its call.
RacePush == (\E self \in Pushers : OnePush(self)) /\ Track

\* A store to a cursor becomes visible to a pushing thread.
RaceSees ==
    (\E self \in Pushers, cursor \in {"head", "tail"} : Propagate(self, cursor)) /\ Track

\* Two threads call push on one queue, once each and at the same time, while
\* the consumer thread pops.
NextRace ==
    \/ DoConstruct
    \/ RacePush
    \/ DoPop
    \/ SeeHead
    \/ RaceSees

SpecRace == Init /\ [][NextRace]_vars

\* Whether no thread is in a call.
Quiescent == \A th \in Contexts : pc[th] = "idle"

\* Whether self may take a step of a call made while the channel is at rest:
\* no other thread is in a call, and self begins a call only once the newest
\* store of each cursor is visible to it.
Solo(self) ==
    /\ \A th \in Contexts \ {self} : pc[th] = "idle"
    /\ pc[self] = "idle" => UpToDate(self)

\* The producer thread takes a step of a push that runs alone.  The cursors
\* do not depend on the elements' values: every push gives the same one.
QuietPush ==
    /\ \E self \in Producers : Solo(self) /\ push(self)
    /\ \A p \in Producers : arg'[p] \in {NoVal, QueryValue}
    /\ Track

\* The consumer thread takes a step of a pop that runs alone.
QuietPop == (\E self \in Consumers : Solo(self) /\ pop(self)) /\ Track

\* A thread takes a step of a full(), empty() or size() that runs alone.
QuietQuery == (\E self \in Threads : Solo(self) /\ query(self)) /\ Track

\* Between two calls the stores made so far become visible to every thread.
QuietSees ==
    /\ Quiescent
    /\ qstate = "alive"
    /\ \E th \in Threads : ~UpToDate(th)
    /\ view' = [th \in Contexts |->
                    IF th \in Threads
                    THEN [head |-> Len(head_mo), tail |-> Len(tail_mo)]
                    ELSE view[th]]
    /\ UNCHANGED <<shared, sync, rel, locals, ghosts, calls>>
    /\ Track

\* The calls of push, pop, full, empty and size made one after the other,
\* each by its thread, each begun when the calls before it have taken effect.
NextQuiet ==
    \/ DoConstruct
    \/ QuietPush
    \/ QuietPop
    \/ QuietQuery
    \/ QuietSees
    \/ DoDestruct

SpecQuiet == Init /\ [][NextQuiet]_vars

\* ------------------------------------------------------------ properties

LiveSlots == {s \in Slots : buffer_[s].live}

IsPrefix(p, q) == Len(p) <= Len(q) /\ \A i \in 1 .. Len(p) : p[i] = q[i]

\* C1: in every interleaving of one producer and one consumer, the values
\* returned by the successful pops are, in order, a prefix of the values
\* given to the successful pushes.
C1_PopsArePrefixOfPushes == IsPrefix(popped, pushed)

\* C1 after the ring of capacity 4 has wrapped: four elements popped in order
\* while the producer is about to publish the fifth, in the re-used slot 0.
C1_Witness ==
    /\ capacity_ = 4
    /\ Len(popped) = 4
    /\ popped[1] # popped[2]
    /\ pc["producer"] = "push_store_head"
    /\ h["producer"] = 0

\* C2: the consumer never reads a slot whose construction has not completed
\* (the slot it is about to move from holds an element, and the construction
\* happens before the read), the producer never constructs into a slot that
\* still holds an element (the slot is vacated, and its destruction happens
\* before the construction), and no access to buffer_ so far was undefined.
C2_SlotsHandedOverWhole ==
    /\ ub = {}
    /\ \A c \in Consumers : pc[c] \in {"pop_move", "pop_destroy"} =>
          /\ t[c] \in Slots
          /\ buffer_[t[c]].live
          /\ Ordered(c, buffer_[t[c]])
    /\ \A p \in Producers : pc[p] = "push_construct" =>
          /\ h[p] \in Slots
          /\ ~buffer_[h[p]].live
          /\ Ordered(p, buffer_[h[p]])

\* C2 where it matters: the consumer is moving an element out while the
\* producer constructs into a slot that an earlier element has left.
C2_Witness ==
    /\ qstate = "alive"
    /\ pc["consumer"] = "pop_move"
    /\ pc["producer"] = "push_construct"
    /\ buffer_[h["producer"]].by = "consumer"

\* Whether no pop has succeeded on the channel.
NoPopYet == Len(tail_mo) = 1

\* C3: a channel of capacity N holds at most N-1 live elements; from the
\* empty channel, with no pop, the pushes succeed until N-1 elements are in
\* and every push after that fails: a push fails only there, and none
\* succeeds beyond.
C3_HoldsAtMostCapacityLessOne ==
    qstate = "alive" =>
        /\ Cardinality(LiveSlots) <= capacity_ - 1
        /\ Count <= capacity_ - 1
        /\ NoPopYet =>
              /\ Len(pushed) <= capacity_ - 1
              /\ \A p \in Producers :
                    (pc[p] = "idle" /\ op[p] = "push" /\ ret[p] = "false")
                        => Len(pushed) = capacity_ - 1

\* C3's example: capacity 4, three pushes have succeeded and the fourth has failed.
C3_Witness ==
    /\ capacity_ = 4
    /\ NoPopYet
    /\ Len(pushed) = 3
    /\ pc["producer"] = "idle"
    /\ ret["producer"] = "false"

\* C4: a push that has returned false saw next equal to the read cursor it
\* loaded, and none of its steps changed head_, tail_ or a slot of buffer_.
C4_FullPushChangesNothing ==
    \A p \in Producers :
        (pc[p] = "idle" /\ op[p] = "push" /\ ret[p] = "false") =>
            /\ next[p] = t[p]
            /\ ~wrote[p]
            /\ \A s \in Slots : buffer_[s].live => buffer_[s].id <= Len(pushed)

\* C4 on a ring that has wrapped: a push has failed on the full channel after pops.
C4_Witness ==
    /\ pc["producer"] = "idle"
    /\ op["producer"] = "push"
    /\ ret["producer"] = "false"
    /\ Len(popped) >= 1
    /\ Count = capacity_ - 1

\* C5: a pop that has returned false saw the write cursor it loaded equal to
\* its read cursor, none of its steps changed head_, tail_ or a slot of
\* buffer_, and the caller's item is what it was before the call.
C5_EmptyPopChangesNothing ==
    \A c \in Consumers :
        (pc[c] = "idle" /\ op[c] = "pop" /\ ret[c] = "false") =>
            /\ h[c] = t[c]
            /\ ~wrote[c]
            /\ item[c] = item0[c]

\* C5 after an earlier pop has filled item: the failed pop leaves that value.
C5_Witness ==
    /\ pc["consumer"] = "idle"
    /\ op["consumer"] = "pop"
    /\ ret["consumer"] = "false"
    /\ item["consumer"] \in Values
    /\ Len(popped) >= 1

\* Whether n is a power of two and at least 2.
PowerOfTwoAtLeast2(n) == \E k \in 1 .. SizeBits : n = 2 ^ k

\* C6: construction succeeds exactly when the capacity is a power of two and
\* at least 2, and throws otherwise; a queue that exists has such a capacity
\* and a buffer of that many slots.
C6_ConstructsExactlyPowersOfTwo ==
    /\ qstate = "failed" => ~PowerOfTwoAtLeast2(capacity_)
    /\ qstate \in {"alive", "destroyed"} =>
          /\ PowerOfTwoAtLeast2(capacity_)
          /\ DOMAIN buffer_ = 0 .. (capacity_ - 1)

\* C6's example of a refused capacity: 6.
C6_Witness == qstate = "failed" /\ capacity_ = 6

\* C7: no element is destroyed twice, no destructor runs on a slot that holds
\* no element, and once the queue is destroyed every element that a push
\* constructed has been destroyed exactly once and no slot holds an element.
C7_EachElementDestroyedOnce ==
    /\ Len(dtor) = born
    /\ \A e \in 1 .. born : dtor[e] <= 1
    /\ "destroy_raw" \notin ub
    /\ qstate = "alive" =>
          \A e \in 1 .. born :
              dtor[e] = 0 <=> \E s \in Slots : buffer_[s].live /\ buffer_[s].id = e
    /\ qstate = "destroyed" =>
          /\ \A e \in 1 .. born : dtor[e] = 1
          /\ LiveSlots = {}

\* C7 with both ways of dying: of five elements in a ring of capacity 4, two
\* were destroyed by pops and three, across the wrap, by the destructor.
C7_Witness ==
    /\ qstate = "destroyed"
    /\ capacity_ = 4
    /\ born = 5
    /\ Len(popped) = 2

\* The steps a call of push (4) or pop (5) takes at most.
MaxSteps(o) == IF o = "push" THEN 4 ELSE 5

\* C9: a call of push or pop takes at most 4 resp. 5 steps, each of its steps
\* can be taken whatever state the other thread is in, and when it has
\* returned it has returned true or false.
C9_CallsFinishInBoundedSteps ==
    /\ \A th \in Producers \cup Consumers :
          /\ op[th] \in {"push", "pop"} => nsteps[th] <= MaxSteps(op[th])
          /\ (op[th] \in {"push", "pop"} /\ pc[th] = "idle") => ret[th] \in {"true", "false"}
    /\ \A p \in Producers : pc[p] # "idle" => ENABLED push(p)
    /\ \A c \in Consumers : pc[c] # "idle" => ENABLED pop(c)

\* C9 where waiting would be tempting: the push has returned false on the
\* full channel while the consumer is in the middle of a pop.
C9_Witness ==
    /\ pc["producer"] = "idle"
    /\ op["producer"] = "push"
    /\ ret["producer"] = "false"
    /\ pc["consumer"] = "pop_move"

\* ------------------------------------------------------------ liveness

\* The consumer keeps calling pop (each step of a pop that can be taken is
\* taken), and a store to head_ becomes visible to the consumer in finite time.
SpecLive ==
    /\ Spec
    /\ WF_vars(DoPop)
    /\ WF_vars(SeeHead)

\* C8: once a push has succeeded, a pop eventually succeeds and returns its
\* element, unless the queue is destroyed first.
C8_PublishedIsEventuallyPopped ==
    \A e \in 1 .. MaxPush :
        (Len(pushed) >= e)
            ~> \/ Len(popped) >= e /\ Len(pushed) >= e /\ popped[e] = pushed[e]
               \/ qstate = "destroyed"

\* C8's case: a pop has returned false (Empty) although the channel holds a
\* published element, whose store to head_ the consumer had not seen yet.
C8_Witness ==
    /\ qstate = "alive"
    /\ pc["consumer"] = "idle"
    /\ op["consumer"] = "pop"
    /\ ret["consumer"] = "false"
    /\ Count >= 1

\* ------------------------------------------------------------ full, empty, size under concurrency

\* Whether a call that returned b for "the count is n" was right at count c.
Agrees(b, c, n) == (b = "true") <=> (c = n)

\* Whether the value th's call is about to return is the count (emptiness,
\* fullness) the channel had at some instant since the call began.
WasTrueDuringCall(th) ==
    /\ qry[th].op = "size" => qry[th].val \in seen[th]
    /\ qry[th].op = "empty" => \E c \in seen[th] : Agrees(qry[th].ret, c, 0)
    /\ qry[th].op = "full" => \E c \in seen[th] : Agrees(qry[th].ret, c, capacity_ - 1)

\* C10 as stated, for whichever thread calls: the value a call of size(),
\* empty() or full() is about to return is the count (emptiness, fullness)
\* the channel had at some instant between the start of the call and now.
\* Only the calls that began with the newest store of both cursors visible to
\* the caller are held to it: a store that was not yet visible when the call
\* began is not counted against the claim.
C10_SnapshotWasTrueDuringCall ==
    \A th \in Threads :
        (pc[th] = "query_return" /\ qry[th].fresh) => WasTrueDuringCall(th)

\* C10, amended: what is claimed holds of the calls made by the producer
\* thread and by the consumer thread.  Whatever the caller has seen, size()
\* is within 0..capacity-1 and is made of a value head_ has held and a value
\* tail_ has held; called by the producer it is never below the count, so
\* that empty() = true means empty and full() = false means not full; called
\* by the consumer it is never above the count, so that empty() = false means
\* not empty and full() = true means full.
C10_HintIsOneSided ==
    \A th \in Threads : pc[th] = "query_return" =>
        /\ (th \in Accessors /\ qry[th].fresh) => WasTrueDuringCall(th)
        /\ qry[th].val \in 0 .. (capacity_ - 1)
        /\ \E i \in 1 .. Len(head_mo) : head_mo[i].val = qry[th].h
        /\ \E i \in 1 .. Len(tail_mo) : tail_mo[i].val = qry[th].t
        /\ th \in Producers =>
              /\ qry[th].op = "size" => qry[th].val >= Count
              /\ (qry[th].op = "empty" /\ qry[th].ret = "true") => Count = 0
              /\ (qry[th].op = "full" /\ qry[th].ret = "false") => Count < capacity_ - 1
        /\ th \in Consumers =>
              /\ qry[th].op = "size" => qry[th].val <= Count
              /\ (qry[th].op = "empty" /\ qry[th].ret = "false") => Count > 0
              /\ (qry[th].op = "full" /\ qry[th].ret = "true") => Count = capacity_ - 1

\* C10's case: the consumer's size() is about to return the count the channel
\* had when the call began, a push having succeeded since that the load of
\* head_ did not see.
C10_Witness ==
    /\ pc["consumer"] = "query_return"
    /\ qry["consumer"].op = "size"
    /\ qry["consumer"].fresh
    /\ qry["consumer"].val < Count
    /\ Len(popped) >= 1

\* ------------------------------------------------------------ codec properties

\* Whether a byte is an ASCII letter or digit.
Alphanumeric(c) == c \in 48 .. 57 \/ c \in 65 .. 90 \/ c \in 97 .. 122

\* The symbol invariant: every byte before the first null is alphanumeric.
SymbolValid(symbol) ==
    \A i \in 1 .. 8 :
        (\A j \in 1 .. (i - 1) : symbol[j] # 0) => (symbol[i] = 0 \/ Alphanumeric(symbol[i]))

\* The price invariant, price > 0: of the prices tried, 50.25 alone.
PriceValid(price) == price = <<0, 0, 0, 0, 0, 32, 73, 64>>

\* The quantity invariant, quantity > 0.
QuantityValid(quantity) == quantity # <<0, 0, 0, 0>>

\* The three field invariants of an InternalRecord.
RecordValid(o) == SymbolValid(o.symbol) /\ PriceValid(o.price) /\ QuantityValid(o.quantity)

\* C11: when the bytes serialize gave for an Order with a valid symbol,
\* price > 0 and quantity > 0 are parsed, parse returns an Order, and it is
\* the same Order, field for field.
C11_RoundTrip ==
    (/\ call.op = "parse"
     /\ call.nread = WireSize
     /\ sentOrder.has_value
     /\ RecordValid(sentOrder.value))
        => /\ parsedOrder.has_value
           /\ parsedOrder.value = sentOrder.value

\* C11 for a Sell order whose id has eight different bytes.
C11_Witness ==
    /\ call.op = "parse"
    /\ call.nread = WireSize
    /\ parsedOrder.has_value
    /\ sentOrder.has_value
    /\ sentOrder.value.order_id = <<8, 7, 6, 5, 4, 3, 2, 1>>
    /\ sentOrder.value.side = 255

\* C12: a parse of fewer than 38 bytes returns no Order, returns at the size
\* check having read no byte of the buffer, and records nothing.
C12_ShortBufferIsTruncated ==
    (call.op = "parse" /\ call.len < WireSize)
        => /\ ~parsedOrder.has_value
           /\ call.check = "size"
           /\ call.nread = 0
           /\ s_idx = call.idx0
           /\ timestamps_RDTSC = call.ring0

\* C12's case: the first 37 bytes of a valid record.
C12_Witness ==
    /\ call.op = "parse"
    /\ call.len = WireSize - 1
    /\ sentOrder.has_value
    /\ RecordValid(sentOrder.value)
    /\ ~parsedOrder.has_value

\* C13: two parses that failed at different checks (size, symbol, price,
\* quantity) returned values the caller can tell apart.
C13_FailuresAreDiscriminated ==
    (/\ call.op = "parse"
     /\ call.check # "none"
     /\ prev.check # "none"
     /\ call.check # prev.check)
        => Failure # prev.failure

\* C14: an Order that parse returned has a valid symbol, price > 0 and
\* quantity > 0.
C14_ReturnedRecordIsValid ==
    (call.op = "parse" /\ parsedOrder.has_value) => RecordValid(parsedOrder.value)

Sample(m) == recorded[m + 1]

\* C16 as stated, with the samples numbered from 0 or from 1: once N > C
\* samples are recorded, slot k holds sample number N - C + k, for every k.
C16_SlotHoldsSampleNMinusCPlusK ==
    LET N == Len(recorded)
        C == MAX_SAMPLES
    IN  N > C =>
            \/ \A k \in SampleSlots : timestamps_RDTSC[k] = Sample(N - C + k)
            \/ \A k \in SampleSlots : timestamps_RDTSC[k] = Sample(N - C + k - 1)

\* C16, amended: the ring is not rotated.  Once N > C samples are recorded,
\* slot k holds the newest sample whose number (from 0) is k modulo C, which
\* is sample N - 1 - ((N - 1 - k) mod C); that is sample N - C + k for every
\* k exactly when N is a multiple of C.
C16_SlotHoldsNewestSampleOfItsResidue ==
    LET N == Len(recorded)
        C == MAX_SAMPLES
    IN  /\ s_idx = N
        /\ N > C =>
              /\ \A k \in SampleSlots :
                    timestamps_RDTSC[k] = Sample(N - 1 - ((N - 1 - k) % C))
              /\ N % C = 0 =>
                    \A k \in SampleSlots : timestamps_RDTSC[k] = Sample(N - C + k)

\* C16's case: the ring has wrapped and the write position is in its middle,
\* so that slot 0 holds a sample newer than the one in the last slot, and the
\* two samples differ.
C16_Witness ==
    /\ Len(recorded) > MAX_SAMPLES
    /\ Len(recorded) % MAX_SAMPLES = 2
    /\ timestamps_RDTSC[0] # timestamps_RDTSC[MAX_SAMPLES - 1]
    /\ call.op = "record"

\* The smaller of two numbers.
Least(a, b) == IF a <= b THEN a ELSE b

\* C17: analyzeLatencies(count) reads the slots 0 .. count-1, at most the
\* MAX_SAMPLES slots of the ring, and no slot outside it.
C17_AnalyzeStaysInsideTheRing ==
    call.op = "analyze" =>
        /\ call.reads = 0 .. (Least(call.count, MAX_SAMPLES) - 1)
        /\ call.reads \subseteq SampleSlots
        /\ "analyze_out_of_bounds" \notin fault

\* The element at index i (from 0) of v in ascending order.
Ranked(v, i) ==
    CHOOSE x \in {v[j] : j \in 1 .. Len(v)} :
        /\ Cardinality({j \in 1 .. Len(v) : v[j] < x}) <= i
        /\ i < Cardinality({j \in 1 .. Len(v) : v[j] <= x})

\* C18: analyzeLatencies over n >= 1 samples reports their least and their
\* greatest and, of the samples in ascending order, the elements at index
\* floor(0.5 n), floor(0.99 n) and floor(0.999 n); the samples it takes are
\* the first n slots of the ring, which it leaves as it was; and for the
\* samples 1, 2, 3, 4, 5 it reports min 1, max 5 and median 3.
C18_ReportsRankStatistics ==
    /\ (call.op = "analyze" /\ call.count >= 1) =>
          LET v == report.latencies
              n == call.count
          IN  /\ report.kind = "stats"
              /\ Len(v) = n
              /\ \A i \in 1 .. n : (i - 1) \in SampleSlots => v[i] = call.ring0[i - 1]
              /\ \A i \in 1 .. n : report.min <= v[i] /\ v[i] <= report.max
              /\ \E i \in 1 .. n : report.min = v[i]
              /\ \E i \in 1 .. n : report.max = v[i]
              /\ report.median = Ranked(v, (5 * n) \div 10)
              /\ report.p99 = Ranked(v, (99 * n) \div 100)
              /\ report.p999 = Ranked(v, (999 * n) \div 1000)
              /\ timestamps_RDTSC = call.ring0
              /\ s_idx = call.idx0
    /\ LET r == Statistics(<<1, 2, 3, 4, 5>>, 0)
       IN  r.min = 1 /\ r.max = 5 /\ r.median = 3 /\ r.p99 = 5 /\ r.p999 = 5

\* C18's case: the whole ring is analyzed after it has wrapped, and its
\* samples are not in ascending order.
C18_Witness ==
    /\ call.op = "analyze"
    /\ call.count = MAX_SAMPLES
    /\ s_idx > MAX_SAMPLES
    /\ report.kind = "stats"
    /\ report.latencies[1] > report.latencies[2]
    /\ report.min < report.max

\* C19: analyzeLatencies(0) prints that no data was recorded, reads no slot
\* of the ring, and indexes no empty vector.
C19_NoDataForCountZero ==
    /\ "analyze_empty" \notin fault
    /\ (call.op = "analyze" /\ call.count = 0) =>
          /\ report.kind = "nodata"
          /\ call.reads = {}
          /\ timestamps_RDTSC = call.ring0

\* C19's case: count is 0 although samples have been recorded.
C19_Witness ==
    /\ call.op = "analyze"
    /\ call.count = 0
    /\ s_idx >= 1
    /\ report.kind = "nodata"

\* C20: a parse or a recordLatency through one MessageParser changes neither
\* the index nor the samples that the other MessageParser gives.
C20_RecordersAreIndependent ==
    call.op \in {"parse", "record"} =>
        \A other \in Parsers \ {call.by} :
            /\ getIndex(other) = call.idx0
            /\ getTimestampList(other) = call.ring0

\* ------------------------------------------------------------ wire layout

\* C21: the buffer serialize returns has 38 bytes; the byte at offset k of an
\* n-byte integer field is the byte of weight 256^(n-1-k) of the value (order
\* id at offset 0, timestamp at 8, price bits at 16, quantity at 24); symbol
\* (28), side (36) and type (37) are the Order's bytes as they are.  The id 1
\* gives 00 00 00 00 00 00 00 01 and the quantity 256 gives 00 00 01 00.
C21_BigEndianAtFixedOffsets ==
    (call.op = "serialize" /\ sentOrder.has_value) =>
        LET o == sentOrder.value IN
        /\ Len(serialized) = 38
        /\ \A k \in 0 .. 7 : serialized[0 + k + 1] = o.order_id[8 - k]
        /\ \A k \in 0 .. 7 : serialized[8 + k + 1] = o.timestamp_ns[8 - k]
        /\ \A k \in 0 .. 7 : serialized[16 + k + 1] = o.price[8 - k]
        /\ \A k \in 0 .. 3 : serialized[24 + k + 1] = o.quantity[4 - k]
        /\ \A k \in 0 .. 7 : serialized[28 + k + 1] = o.symbol[k + 1]
        /\ serialized[36 + 1] = o.side
        /\ serialized[37 + 1] = o.type
        /\ o.order_id = <<1, 0, 0, 0, 0, 0, 0, 0>>
              => SubSeq(serialized, 1, 8) = <<0, 0, 0, 0, 0, 0, 0, 1>>
        /\ o.quantity = <<0, 1, 0, 0>>
              => SubSeq(serialized, 25, 28) = <<0, 0, 1, 0>>

\* C21's example: the id 1 and the quantity 256 have been serialized, in a
\* Sell order.
C21_Witness ==
    /\ call.op = "serialize"
    /\ sentOrder.has_value
    /\ sentOrder.value.order_id = <<1, 0, 0, 0, 0, 0, 0, 0>>
    /\ sentOrder.value.quantity = <<0, 1, 0, 0>>
    /\ sentOrder.value.side = 255
    /\ SubSeq(serialized, 25, 28) = <<0, 0, 1, 0>>

\* C22: serialize returns 38 bytes for every Order, valid or not; and a
\* parse of the bytes serialize gave for an Order that breaks the symbol, the
\* price or the quantity invariant returns no Order.
C22_InvalidRecordIsNeverDecoded ==
    /\ (call.op = "serialize" /\ sentOrder.has_value) => Len(serialized) = WireSize
    /\ (/\ call.op = "parse"
        /\ call.nread = WireSize
        /\ sentOrder.has_value
        /\ ~RecordValid(sentOrder.value))
           => ~parsedOrder.has_value

\* ------------------------------------------------------------ two producers

\* Whether the calls of push of p and q have both returned true after loading
\* the same write cursor.
Collided(p, q) ==
    /\ p # q
    /\ pc[p] = "idle" /\ ret[p] = "true"
    /\ pc[q] = "idle" /\ ret[q] = "true"
    /\ h[p] = h[q]

\* C23: nothing keeps a second thread from calling push.  When the two calls
\* load the same write cursor and both return true, both have constructed
\* into the one slot buffer_[h], no other slot has been written, both have
\* stored the same next into head_, and of the two values pushed at most one
\* is ever popped.
C23_ConcurrentPushesLoseAValue ==
    \A p, q \in Pushers : Collided(p, q) =>
        /\ Len(pushed) = 2
        /\ born = 2
        /\ buffer_[h[p]].id \in {1, 2}
        /\ \A s \in Slots \ {h[p]} : buffer_[s] = RawSlot
        /\ Len(head_mo) = 3
        /\ head_mo[2].val = head_mo[3].val
        /\ head_mo[2].by # head_mo[3].by
        /\ head_ = Advance(h[p], capacity_)
        /\ Len(popped) <= 1

\* C23's interleaving, run to its end: two pushes of different values have
\* returned true, one pop has returned a value and the next has found the
\* channel empty.
C23_Witness ==
    /\ Collided("producer", "rival")
    /\ arg["producer"] # arg["rival"]
    /\ Len(popped) = 1
    /\ pc["consumer"] = "idle"
    /\ op["consumer"] = "pop"
    /\ ret["consumer"] = "false"
    /\ view["consumer"].head = Len(head_mo)

\* ------------------------------------------------------------ cursors

\* Both cursors of a constructed channel are slots of the buffer.
CursorsInRange == qstate = "alive" => (head_ \in Slots /\ tail_ \in Slots)

\* Whether the step is the one in which th's call of o returns r.
Returns(th, o, r) ==
    /\ pc[th] \notin QueryPcs \cup {"idle"}
    /\ op[th] = o
    /\ pc'[th] = "idle"
    /\ ret'[th] = r

\* A step on a constructed channel: head_ changes exactly in the step in
\* which a push returns true, tail_ exactly in the step in which a pop
\* returns true, each to its old value + 1 modulo capacity_, the other
\* cursor staying as it is.
CursorStep ==
    (qstate = "alive" /\ qstate' # "none") =>
        /\ head_' # head_ <=> \E p \in Producers : Returns(p, "push", "true")
        /\ tail_' # tail_ <=> \E c \in Consumers : Returns(c, "pop", "true")
        /\ head_' # head_ => (head_' = (head_ + 1) % capacity_ /\ tail_' = tail_)
        /\ tail_' # tail_ => (tail_' = (tail_ + 1) % capacity_ /\ head_' = head_)

Balance == Len(pushed) - Len(popped)

\* What a call of size(), empty() or full() made at rest is about to return.
QueryIsExact ==
    \A th \in Threads : pc[th] = "query_return" =>
        /\ qry[th].op = "size" => qry[th].val = Balance
        /\ qry[th].op = "empty" => qry[th].ret = Bool(Balance = 0)
        /\ qry[th].op = "full" => qry[th].ret = Bool(Balance = capacity_ - 1)

\* The step in which a push or a pop made at rest returns.
OutcomeStep ==
    /\ \A p \in Producers :
          /\ Returns(p, "push", "true") => Balance < capacity_ - 1
          /\ Returns(p, "push", "false") => Balance = capacity_ - 1
    /\ \A c \in Consumers :
          /\ Returns(c, "pop", "true") => Balance > 0
          /\ Returns(c, "pop", "false") => Balance = 0

\* C25: with no push or pop in progress, size() returns the number of pushes
\* that returned true less the number of pops that did, empty() returns
\* whether that number is 0 and full() whether it is capacity_ - 1; the next
\* push returns true exactly when it is below capacity_ - 1 (full() false),
\* and the next pop returns true exactly when it is above 0 (empty() false).
\* The calls are those made once the calls before them have taken effect.
C25_QueriesAreExactAtRest == [](QueryIsExact) /\ [][OutcomeStep]_vars

\* C25 on a wrapped ring: the consumer's full() is about to return true on
\* a channel of capacity 4 whose write cursor is behind its read cursor.
C25_Witness ==
    /\ pc["consumer"] = "query_return"
    /\ qry["consumer"].op = "full"
    /\ qry["consumer"].ret = "true"
    /\ capacity_ = 4
    /\ head_ < tail_

\* ------------------------------------------------------------ rank statistics

\* For every count from 1 up, the three rank indices are below the count,
\* and in the order median, p99, p99.9.
RanksInside ==
    \A n \in 1 .. MaxRank :
        /\ MedianIndex(n) < n
        /\ P99Index(n) < n
        /\ P999Index(n) < n
        /\ MedianIndex(n) <= P99Index(n)
        /\ P99Index(n) <= P999Index(n)

\* C26: the rank indices of every count n >= 1 are below n; and what
\* analyzeLatencies reports for a count within the ring, whatever the slots
\* hold, is in the order min <= median <= p99 <= p99.9 <= max, each of the
\* five being the value of one of the first count slots.
C26_RanksAreInsideAndOrdered ==
    /\ RanksInside
    /\ (report.kind = "stats" /\ call.op = "analyze" /\ call.count \in 1 .. MAX_SAMPLES) =>
          LET analyzed == {timestamps_RDTSC[k] : k \in 0 .. (call.count - 1)} IN
          /\ report.count = call.count
          /\ report.min <= report.median
          /\ report.median <= report.p99
          /\ report.p99 <= report.p999
          /\ report.p999 <= report.max
          /\ {report.min, report.median, report.p99, report.p999, report.max} \subseteq analyzed

\* C26 on a full ring whose slots hold three different values in no order.
C26_Witness ==
    /\ report.kind = "stats"
    /\ call.op = "analyze"
    /\ call.count = MAX_SAMPLES
    /\ report.min < report.median
    /\ report.median < report.max
    /\ timestamps_RDTSC[0] > timestamps_RDTSC[1]

\* ------------------------------------------------------------ decode, then encode

\* The step that serializes the Order the last parse returned.
IsReencode ==
    /\ call.op = "parse"
    /\ parsedOrder.has_value
    /\ call'.op = "serialize"
    /\ sentOrder' = parsedOrder

\* C27: when parse has returned an Order for a buffer of 38 bytes or more,
\* whatever its side and type bytes and whatever follows a null in its
\* symbol, serialize of that Order gives the first 38 bytes of the buffer.
C27_DecodeThenEncodeGivesTheBytes ==
    [][IsReencode =>
          /\ Len(serialized) >= 38
          /\ Len(serialized') = 38
          /\ \A i \in 1 .. 38 : serialized'[i] = serialized[i]]_all

\* C27 for tags that are no Side and no OrderType and a symbol with bytes
\* after its null: the Order parse returned has been serialized.
C27_Witness ==
    /\ call.op = "serialize"
    /\ prev.check = "none"
    /\ sentOrder = parsedOrder
    /\ parsedOrder.has_value
    /\ parsedOrder.value.side = 7
    /\ parsedOrder.value.type = 9
    /\ parsedOrder.value.symbol = <<65, 0, 33, 128, 0, 0, 0, 0>>
    /\ parsedOrder.value.order_id = <<8, 7, 6, 5, 4, 3, 2, 1>>
    /\ SubSeq(serialized, 29, 38) = <<65, 0, 33, 128, 0, 0, 0, 0, 7, 9>>

=============================================================================
